---- MODULE Spec2Model ----
(***************************************************************************)
(* Per-client admission control of okakura/multi-blog:                     *)
(*   apps/api/src/middleware/rate_limit.rs  (DashMap registry + governor)  *)
(* Time is counted in whole seconds.  A governor RateLimiter is modelled   *)
(* by its GCRA state: one atomic cell `tat` (0 = not yet set) updated by   *)
(* a load / compare-exchange loop.                                         *)
(***************************************************************************)
EXTENDS Integers, Sequences, FiniteSets, TLC

\* ---------------------------------------------------------------- bounds
NumTasks == 2
MaxRequests == 3
MaxTicks == 1
MaxSweeps == 1
MaxBurst == 2
MaxWindow == 2
MaxForwardedLen == 3
MaxRealIpLen == 2
ApplyRequests == 2
SweepRequests == 2
SlowTicks == 2
LiveRequests == 2
LiveTicks == 2
ShardRequests == 2
AnyRequests == 2
RwRequests == 2
EvictRequests == 1
TestTicks == 2

Tasks == 1..NumTasks
Ips == {"A", "B"}
Mids == {"auth", "default"}
Deltas == {1, 3600, 4000}

\* ------------------------------------------------------ program constants
\* Duration::from_secs(3600) in start_cleanup_task
StaleAfter == 3600
\* Duration::from_secs(300) passed by RateLimitMiddleware::new
CleanupInterval == 300

\* RateLimitConfig { max_requests: NonZeroU32, window_seconds: u64 }
ConfigSet == [max_requests : 1..MaxBurst, window_seconds : 1..MaxWindow]

VARIABLES
  now,        \* the clock (Instant::now / DefaultClock), seconds
  cfg,        \* cfg[m]: the RateLimitConfig of middleware instance m
  limiters,   \* limiters[m][ip]: the DashMap entry (LimiterState) or NoEntry
  heap,       \* heap[id]: the RateLimiter behind an Arc, with its check log
  task,       \* task[t]: a request task inside RateLimitMiddleware::apply
  sweep,      \* sweep[m]: the cleanup task of middleware instance m
  reqs,       \* number of apply calls started
  ticks,      \* number of clock advances
  sweeps,     \* number of cleanup runs started
  req,        \* the request parts given to the ClientIp extractor, and its result
  env,        \* what a behaviour explores: budgets, requesting identities,
              \* downstream results, whether history is kept (never changes)
  hist        \* hist[m][ip]: history of the requests of ip under instance m

vars == <<now, cfg, limiters, heap, task, sweep, reqs, ticks, sweeps, req, env, hist>>

Max(a, b) == IF a >= b THEN a ELSE b

\* ------------------------------------------------------------------ ClientIp
\* A header value is a sequence of symbols: an IP address literal ("v4" for
\* 192.168.0.1, "v6" for 2001:db8::1, "v6full" for 2001:db8:0:0:0:0:0:1), "x"
\* for text that is no part of an address, "," , " " for white space, and "#"
\* for a byte outside visible ASCII.
AddrLiterals == {"v4", "v6", "v6full"}
HeaderSymbols == AddrLiterals \cup {"x", ",", " ", "#"}

None == [some |-> FALSE]
Some(v) == [some |-> TRUE, v |-> v]

\* the IpAddr a literal denotes (two spellings of one IPv6 address)
IpAddrOf(lit) == IF lit = "v4" THEN "192.168.0.1" ELSE "2001:db8::1"

\* HeaderValue::to_str: fails on a byte outside visible ASCII
to_str(h) == IF \E i \in 1..Len(h) : h[i] = "#" THEN None ELSE Some(h)

\* s.split(',').next(): the text before the first comma
RECURSIVE split_first(_)
split_first(s) ==
  IF s = <<>> \/ Head(s) = "," THEN <<>> ELSE <<Head(s)>> \o split_first(Tail(s))

\* str::trim
RECURSIVE trim_start(_)
trim_start(s) == IF s # <<>> /\ Head(s) = " " THEN trim_start(Tail(s)) ELSE s

RECURSIVE trim_end(_)
trim_end(s) ==
  IF s # <<>> /\ s[Len(s)] = " " THEN trim_end(SubSeq(s, 1, Len(s) - 1)) ELSE s

trim(s) == trim_end(trim_start(s))

\* str::parse::<IpAddr>: exactly one address literal and nothing else
parse(s) ==
  IF Len(s) = 1 /\ s[1] \in AddrLiterals THEN Some(IpAddrOf(s[1])) ELSE None

\* headers.get("X-Forwarded-For").and_then(to_str).and_then(split.next)
\*   .and_then(trim.parse)
forwarded_for(parts) ==
  IF ~parts.xff.some THEN None
  ELSE LET str == to_str(parts.xff.v) IN
         IF ~str.some THEN None ELSE parse(trim(split_first(str.v)))

\* headers.get("X-Real-IP").and_then(to_str).and_then(trim.parse)
real_ip(parts) ==
  IF ~parts.xreal.some THEN None
  ELSE LET str == to_str(parts.xreal.v) IN
         IF ~str.some THEN None ELSE parse(trim(str.v))

\* an extractor that consults X-Real-IP before X-Forwarded-For
from_request_parts_real_first(parts) ==
  IF real_ip(parts).some THEN [ok |-> TRUE, ip |-> real_ip(parts).v]
  ELSE IF forwarded_for(parts).some THEN [ok |-> TRUE, ip |-> forwarded_for(parts).v]
  ELSE IF parts.conn.some THEN [ok |-> TRUE, ip |-> parts.conn.v]
  ELSE [ok |-> FALSE, status |-> 500]

\* ClientIp::from_request_parts
from_request_parts(parts) ==
  IF forwarded_for(parts).some THEN [ok |-> TRUE, ip |-> forwarded_for(parts).v]
  ELSE IF real_ip(parts).some THEN [ok |-> TRUE, ip |-> real_ip(parts).v]
  ELSE IF parts.conn.some THEN [ok |-> TRUE, ip |-> parts.conn.v]
  ELSE [ok |-> FALSE, status |-> 500]

\* the header values and peer addresses the extractor is run on
RECURSIVE SeqsUpTo(_, _)
SeqsUpTo(S, n) ==
  IF n = 0 THEN {<<>>}
  ELSE LET shorter == SeqsUpTo(S, n - 1) IN
         shorter \cup {Append(q, c) : q \in shorter, c \in S}

HeaderOpt(n) == {None} \cup {Some(h) : h \in SeqsUpTo(HeaderSymbols, n)}
PeerOpt == {None, Some("127.0.0.1"), Some("192.168.0.1")}

\* no extraction in progress
NoParts == [xff |-> None, xreal |-> None, conn |-> None, state |-> "none"]

\* ------------------------------------------------------------- LimiterState
NoEntry == [limiter |-> 0, last_accessed |-> 0]

\* LimiterState::new
LimiterState_new(id, t) == [limiter |-> id, last_accessed |-> t]

\* LimiterState::touch
touch(entry, t) == [entry EXCEPT !.last_accessed = t]

\* a staleness test with the comparison turned around
is_stale_inverted(entry, timeout, t) == t - entry.last_accessed < timeout

\* LimiterState::is_stale
is_stale(entry, timeout, t) == t - entry.last_accessed > timeout

\* ----------------------------------------------------------------- governor
\* Quota::with_period(Duration::from_secs(window_seconds)): None for a period
\* of zero length, otherwise one cell every window_seconds with a burst of 1
with_period(window_seconds) ==
  IF window_seconds = 0 THEN None
  ELSE Some([replenish_1_per |-> window_seconds, max_burst |-> 1])

\* Quota::with_period(Duration::from_secs(window_seconds)).allow_burst(max_requests):
\* one cell is replenished every window_seconds, burst capacity max_requests.
Quota(c) == [replenish_1_per |-> c.window_seconds, max_burst |-> c.max_requests]

\* the emission interval t and the tolerance tau of the limiter's GCRA
\* (GcraTau_short: a tolerance one cell short)
GcraT(q) == q.replenish_1_per
GcraTau_short(q) == q.replenish_1_per * (q.max_burst - 1)

GcraTau(q) == q.replenish_1_per * q.max_burst

\* RateLimiter::direct(quota): start = clock.now(), state cell = 0
RateLimiter_direct(m, ip, q, t) ==
  [mid |-> m, ip |-> ip, quota |-> q, start |-> t, tat |-> 0, admits |-> <<>>]

\* the decision closure of one check at time t0 (relative to start) on the
\* loaded cell value prev
Decide(q, prev, t0) ==
  LET tat == IF prev = 0 THEN t0 + GcraT(q) ELSE prev
      earliest == Max(tat - GcraTau(q), 0)
  IN IF t0 < earliest
       THEN [ok |-> FALSE, next |-> prev]
       ELSE [ok |-> TRUE, next |-> Max(tat, t0) + GcraT(q)]

\* ----------------------------------------------------------------- DashMap
\* a lookup that ignores the key and returns any entry of the map
get_mut_any(map, ip) ==
  IF \E i \in Ips : map[i].limiter # 0
    THEN map[CHOOSE i \in Ips : map[i].limiter # 0]
    ELSE NoEntry

\* DashMap::get_mut(&ip)
get_mut(map, ip) == map[ip]

\* DashMap::insert(ip, state): replaces whatever the key held
insert(map, ip, entry) == [map EXCEPT ![ip] = entry]

\* DashMap::len
len(map) == Cardinality({i \in Ips : map[i].limiter # 0})

\* ------------------------------------------------------------------- tasks
\* made: the clock reading of LimiterState::new, held until the insert
\* epoch: the number of cleanup runs started before that reading (history)
\* first / n0: the cell value and the number of admissions the check found
\* when it first loaded the cell (history, kept until the task is reused)
\* fresh: get_limiter missed under the read lock while no limiter had yet
\* been built for its identity (history)
\* calls / downstream / out / recorded: what the last apply on this task did:
\* how often it ran the downstream service, the status of the downstream's
\* response, the result apply returned, the status handed to
\* record_http_metrics
NoResult == [kind |-> "none", status |-> 0]

IdleTask == [pc |-> "idle", mid |-> "default", ip |-> "A", lim |-> 0,
             made |-> 0, epoch |-> 0, t0 |-> 0, prev |-> 0, first |-> 0, n0 |-> 0,
             fresh |-> FALSE,
             calls |-> 0, downstream |-> 0, out |-> NoResult, recorded |-> 0]

\* index / started: the number and the starting time of the running cleanup
\* touched: the identities whose entry holds a last_accessed that was read
\*          off the clock after the running cleanup began
\* spared: the identities retain visited while touched, and kept
\* removed: the number of entries retain has removed
\* (history, reset when the run ends)
\* shard: the shard whose write lock retain holds ("none": no lock held)
IdleSweep == [pc |-> "sleep", pending |-> {}, initial_count |-> 0,
              next_tick |-> 0, cleaned |-> 0,
              index |-> 0, started |-> 0, touched |-> {}, spared |-> {},
              removed |-> 0, shard |-> "none"]

\* history: the entry of identity ip in the registry swept by w was given a
\* last_accessed read off the clock when `epoch` cleanup runs had been started
Touched(w, ip, epoch) ==
  IF w.pc # "retain" THEN w
  ELSE IF epoch >= w.index THEN [w EXCEPT !.touched = @ \cup {ip}]
  ELSE [w EXCEPT !.touched = @ \ {ip}]

\* one map shared by every instance
registry_shared(m) == "auth"

\* RateLimitMiddleware::new: limiters = Arc::new(DashMap::new()), one map per
\* instance
registry(m) == m

\* RateLimitMiddleware::new(config) of instance m: the Arc of its registry
\* and its configuration
RateLimitMiddleware_new(m) == [limiters |-> registry(m), config |-> cfg[m]]

\* a clone that points to the registry of the other instance
clone_other_registry(mw) ==
  [mw EXCEPT !.limiters = IF @ = "auth" THEN "default" ELSE "auth"]

\* #[derive(Clone)] for RateLimitMiddleware, field by field: Arc::clone of
\* limiters (a second pointer to the same map) and a copy of config
clone(mw) == [limiters |-> mw.limiters, config |-> mw.config]

\* the receiver of apply: create_app's layers call
\* <instance>_rate_limiter.clone() for every request
Receiver(m) == clone(RateLimitMiddleware_new(m))

\* the budgets of a behaviour (apply calls, clock advances, cleanup runs), the
\* identities that send requests, the results the downstream can come to,
\* whether history is kept, and the steps the clock advances by
Env(r, t, w, ips, results, audit) ==
  [reqs |-> r, ticks |-> t, sweeps |-> w, ips |-> ips, results |-> results,
   audit |-> audit, deltas |-> Deltas]

\* history of an identity: the time of its latest request (-1: none yet) and
\* whether its requests so far were never more than StaleAfter apart
NoHistory == [last |-> -1, regular |-> TRUE]

Requested(h, t) ==
  [last |-> t, regular |-> h.regular /\ (h.last = -1 \/ t - h.last <= StaleAfter)]

\* RateLimitMiddleware::new for every instance in ms, configured from
\* configs, serving requests on the tasks ts: an empty registry and a cleanup
\* task whose first tick is due
InitOf(ms, ts, configs, e) ==
  /\ now = 0
  /\ cfg \in [ms -> configs]
  /\ limiters = [m \in ms |-> [i \in Ips |-> NoEntry]]
  /\ heap = <<>>
  /\ task = [t \in ts |-> IdleTask]
  /\ sweep = [m \in ms |-> IdleSweep]
  /\ reqs = 0
  /\ ticks = 0
  /\ sweeps = 0
  /\ req = NoParts
  /\ env = e
  /\ hist = [m \in ms |-> [i \in Ips |-> NoHistory]]

InitWith(ms, ts) ==
  InitOf(ms, ts, ConfigSet, Env(MaxRequests, MaxTicks, MaxSweeps, Ips, {200}, FALSE))

\* one middleware instance, NumTasks concurrent request tasks
Init == InitWith({"default"}, Tasks)

\* the instances created by separate create_rate_limiter calls, one task
InitMulti == InitWith(Mids, {1})

\* apply -> get_limiter, first half: get_mut; on a hit touch and return the
\* Arc clone, on a miss fall through to the construction.  A new request
\* runs on the lowest free task (the tasks are interchangeable), and the
\* identity of the very first request is called "A" (so are the identities).
GetLimiterLookup(t, m, ip) ==
  /\ task[t].pc = "idle"
  /\ \A u \in DOMAIN task : u < t => task[u].pc # "idle"
  /\ reqs = 0 => ip = "A"
  /\ ip \in env.ips
  /\ reqs < env.reqs
  /\ reqs' = reqs + 1
  /\ hist' = IF env.audit THEN [hist EXCEPT ![m][ip] = Requested(@, now)] ELSE hist
  /\ LET r == Receiver(m).limiters
         entry == get_mut(limiters[r], ip)
     IN IF entry.limiter # 0
          THEN /\ limiters' = [limiters EXCEPT ![r][ip] = touch(entry, now)]
               /\ task' = [task EXCEPT ![t] = [IdleTask EXCEPT !.pc = "check", !.mid = m,
                                                 !.ip = ip, !.lim = entry.limiter]]
               /\ sweep' = IF env.audit
                             THEN [sweep EXCEPT ![r] = Touched(@, ip, sweeps)]
                             ELSE sweep
          ELSE /\ limiters' = limiters
               /\ task' = [task EXCEPT ![t] = [IdleTask EXCEPT !.pc = "create", !.mid = m,
                                                 !.ip = ip]]
               /\ sweep' = sweep
  /\ UNCHANGED <<now, cfg, heap, ticks, sweeps, req, env>>

\* get_limiter, second part: build the quota and the limiter, and the
\* LimiterState that is insert's argument (LimiterState::new reads the clock
\* before insert is entered); unwrap panics on a period with_period refuses,
\* which ends the request task
GetLimiterCreate(t) ==
  /\ task[t].pc = "create"
  /\ LET m == task[t].mid
         ip == task[t].ip
         id == Len(heap) + 1
     IN IF with_period(Receiver(m).config.window_seconds).some
          THEN /\ heap' = Append(heap, RateLimiter_direct(m, ip, Quota(Receiver(m).config), now))
               /\ task' = [task EXCEPT ![t].pc = "insert", ![t].lim = id,
                                         ![t].made = now,
                                         ![t].epoch = IF env.audit THEN sweeps ELSE 0]
          ELSE /\ heap' = heap
               /\ task' = [task EXCEPT ![t].pc = "panicked"]
  /\ UNCHANGED <<now, cfg, limiters, sweep, reqs, ticks, sweeps, req, env, hist>>

\* get_limiter, last part: insert the LimiterState, return the limiter
GetLimiterInsert(t) ==
  /\ task[t].pc = "insert"
  /\ limiters' = [limiters EXCEPT ![Receiver(task[t].mid).limiters] =
                    insert(@, task[t].ip, LimiterState_new(task[t].lim, task[t].made))]
  /\ task' = [task EXCEPT ![t].pc = "check", ![t].made = 0, ![t].epoch = 0]
  /\ sweep' = IF env.audit
                THEN [sweep EXCEPT ![Receiver(task[t].mid).limiters] =
                                     Touched(@, task[t].ip, task[t].epoch)]
                ELSE sweep
  /\ UNCHANGED <<now, cfg, heap, reqs, ticks, sweeps, req, env, hist>>

\* history: the clock readings of the admitted checks of a limiter
Logged(b, at) == [b EXCEPT !.admits = Append(@, at)]

\* a rejection that pushes the cell one interval on
not_until_penalty(b) == [b EXCEPT !.tat = @ + GcraT(b.quota)]

\* a negative decision: check returns Err(NotUntil) and stores nothing
not_until(b) == b

\* limiter.check(): read the clock, load the cell, decide; a negative
\* decision returns at once, a positive one goes on to the compare-exchange
CheckLoad(t) ==
  /\ task[t].pc = "check"
  /\ LET id == task[t].lim
         b == heap[id]
         t0 == now - b.start
         d == Decide(b.quota, b.tat, t0)
     IN /\ task' = [task EXCEPT ![t].pc = IF d.ok THEN "cas" ELSE "rejected",
                                  ![t].t0 = t0, ![t].prev = IF d.ok THEN b.tat ELSE 0,
                                  ![t].first = b.tat, ![t].n0 = Len(b.admits)]
        /\ heap' = IF d.ok THEN heap ELSE [heap EXCEPT ![id] = not_until(b)]
  /\ UNCHANGED <<now, cfg, limiters, sweep, reqs, ticks, sweeps, req, env, hist>>

\* a plain store in place of the compare-exchange
compare_exchange_blind(b, prev, next) == [ok |-> TRUE, tat |-> next]

\* compare_exchange_weak(prev, next): store on a match; otherwise take the
\* value found and decide again with the same t0
compare_exchange(b, prev, next) ==
  IF b.tat = prev THEN [ok |-> TRUE, tat |-> next] ELSE [ok |-> FALSE, tat |-> b.tat]

CheckCas(t) ==
  /\ task[t].pc = "cas"
  /\ LET id == task[t].lim
         b == heap[id]
         d == Decide(b.quota, task[t].prev, task[t].t0)
         x == compare_exchange(b, task[t].prev, d.next)
     IN IF x.ok
          THEN /\ heap' = [heap EXCEPT ![id] =
                             Logged([b EXCEPT !.tat = x.tat], b.start + task[t].t0)]
               /\ task' = [task EXCEPT ![t].pc = "admitted", ![t].prev = 0]
          ELSE LET d2 == Decide(b.quota, x.tat, task[t].t0) IN
               IF d2.ok
                 THEN /\ task' = [task EXCEPT ![t].prev = x.tat]
                      /\ heap' = heap
                 ELSE /\ task' = [task EXCEPT ![t].pc = "rejected", ![t].prev = 0]
                      /\ heap' = [heap EXCEPT ![id] = not_until(b)]
  /\ UNCHANGED <<now, cfg, limiters, sweep, reqs, ticks, sweeps, req, env, hist>>

\* what next.run(request).await can come to: a response of the downstream
\* service (success or failure status), or nothing when the request future is
\* dropped while the downstream runs
Dropped == 0
DownstreamResults == {200, 500, Dropped}
TOO_MANY_REQUESTS == 429

\* a match whose Err arm runs the downstream too
apply_match_forward_always(admitted, r) ==
  IF admitted
    THEN [calls |-> 1, downstream |-> r, recorded |-> 0,
          out |-> IF r = Dropped THEN [kind |-> "dropped", status |-> 0]
                                 ELSE [kind |-> "Ok", status |-> r]]
    ELSE [calls |-> 1, downstream |-> r, recorded |-> TOO_MANY_REQUESTS,
          out |-> [kind |-> "Err", status |-> TOO_MANY_REQUESTS]]

\* match limiter.check() { Ok(_) => Ok(next.run(request).await),
\*   Err(_) => { warn!; record_http_metrics(.., 429, 0); Err(TOO_MANY_REQUESTS) } }
apply_match(admitted, r) ==
  IF admitted
    THEN [calls |-> 1, downstream |-> r, recorded |-> 0,
          out |-> IF r = Dropped THEN [kind |-> "dropped", status |-> 0]
                                 ELSE [kind |-> "Ok", status |-> r]]
    ELSE [calls |-> 0, downstream |-> 0, recorded |-> TOO_MANY_REQUESTS,
          out |-> [kind |-> "Err", status |-> TOO_MANY_REQUESTS]]

\* an end of scope that gives the cell its last interval back
drop_arc_refund(b) ==
  [b EXCEPT !.tat = IF @ > GcraT(b.quota) THEN @ - GcraT(b.quota) ELSE @]

\* the end of apply's scope: the Arc<RateLimiter> clone taken from
\* get_limiter is dropped, the limiter it points to stays as it is
drop_arc(b) == b

\* apply's two arms, to the end of the call
Respond(t) ==
  /\ task[t].pc \in {"admitted", "rejected"}
  /\ \E r \in IF task[t].pc = "admitted" THEN env.results ELSE {Dropped} :
       /\ LET a == apply_match(task[t].pc = "admitted", r) IN
            task' = [task EXCEPT ![t] = [IdleTask EXCEPT !.calls = a.calls,
                                                          !.downstream = a.downstream,
                                                          !.out = a.out,
                                                          !.recorded = a.recorded]]
  /\ heap' = [heap EXCEPT ![task[t].lim] = drop_arc(@)]
  /\ UNCHANGED <<now, cfg, limiters, sweep, reqs, ticks, sweeps, req, env, hist>>

\* a timer that is not armed again after it fired
interval_tick_once(due) == due + StaleAfter * StaleAfter

\* tokio::time::interval(cleanup_interval_secs): the tick after the one that
\* was due at `due` is due one period later (a late tick is not skipped)
interval_tick(due) == due + CleanupInterval

\* the cleanup loop: interval.tick() fires, initial_count = limiters.len()
SweepStart(m) ==
  /\ sweep[m].pc = "sleep"
  /\ sweeps < env.sweeps
  /\ now >= sweep[m].next_tick
  /\ sweeps' = sweeps + 1
  /\ sweep' = [sweep EXCEPT ![m].pc = "retain",
                            ![m].pending = Ips,
                            ![m].initial_count = len(limiters[registry(m)]),
                            ![m].next_tick = interval_tick(@),
                            ![m].index = IF env.audit THEN sweeps + 1 ELSE 0,
                            ![m].started = IF env.audit THEN now ELSE 0]
  /\ UNCHANGED <<now, cfg, limiters, heap, task, reqs, ticks, req, env, hist>>

\* a retain that touches the entries it keeps
retain_shard_touching(map, ip, t) ==
  IF map[ip].limiter = 0 THEN map
  ELSE IF is_stale(map[ip], StaleAfter, t) THEN [map EXCEPT ![ip] = NoEntry]
  ELSE [map EXCEPT ![ip] = touch(@, t)]

\* a retain that also drops an entry exactly stale_after old
retain_shard_at_threshold(map, ip, t) ==
  IF map[ip].limiter # 0 /\ t - map[ip].last_accessed >= StaleAfter
    THEN [map EXCEPT ![ip] = NoEntry]
    ELSE map

\* retain(|_, state| !state.is_stale(stale_after)) on the shard holding ip
retain_shard(map, ip, t) ==
  IF map[ip].limiter # 0 /\ is_stale(map[ip], StaleAfter, t)
    THEN [map EXCEPT ![ip] = NoEntry]
    ELSE map

SweepShard(m, ip) ==
  /\ sweep[m].pc = "retain"
  /\ ip \in sweep[m].pending
  /\ limiters' = [limiters EXCEPT ![registry(m)] = retain_shard(@, ip, now)]
  /\ sweep' = [sweep EXCEPT ![m].pending = @ \ {ip},
                            ![m].spared =
                               IF /\ ip \in sweep[m].touched
                                  /\ limiters'[registry(m)][ip].limiter # 0
                                 THEN @ \cup {ip} ELSE @,
                            ![m].removed =
                               IF /\ env.audit
                                  /\ limiters'[registry(m)][ip] # limiters[registry(m)][ip]
                                 THEN @ + 1 ELSE @]
  /\ UNCHANGED <<now, cfg, heap, task, reqs, ticks, sweeps, req, env, hist>>

\* final_count = limiters.len(); cleaned = initial_count - final_count is
\* logged when initial_count > final_count
SweepEnd(m) ==
  /\ sweep[m].pc = "retain"
  /\ sweep[m].pending = {}
  /\ LET final_count == len(limiters[registry(m)]) IN
       sweep' = [sweep EXCEPT ![m].pc = "sleep",
                              ![m].cleaned = IF sweep[m].initial_count > final_count
                                               THEN sweep[m].initial_count - final_count
                                               ELSE 0,
                              ![m].index = 0, ![m].started = 0,
                              ![m].touched = {}, ![m].spared = {},
                              ![m].removed = 0]
  /\ UNCHANGED <<now, cfg, limiters, heap, task, reqs, ticks, sweeps, req, env, hist>>

\* time passes
Tick(d) ==
  /\ ticks < env.ticks
  /\ d \in env.deltas
  /\ ticks' = ticks + 1
  /\ now' = now + d
  /\ UNCHANGED <<cfg, limiters, heap, task, sweep, reqs, sweeps, req, env, hist>>

Next ==
  \/ \E t \in DOMAIN task, m \in DOMAIN cfg, ip \in Ips : GetLimiterLookup(t, m, ip)
  \/ \E t \in DOMAIN task : GetLimiterCreate(t)
  \/ \E t \in DOMAIN task : GetLimiterInsert(t)
  \/ \E t \in DOMAIN task : CheckLoad(t)
  \/ \E t \in DOMAIN task : CheckCas(t)
  \/ \E t \in DOMAIN task : Respond(t)
  \/ \E m \in DOMAIN cfg : SweepStart(m)
  \/ \E m \in DOMAIN cfg, ip \in Ips : SweepShard(m, ip)
  \/ \E m \in DOMAIN cfg : SweepEnd(m)
  \/ \E d \in Deltas : Tick(d)

Spec == Init /\ [][Next]_vars

\* ------------------------------------------------- the ClientIp extractor
\* a request with any combination of the three signals reaches the extractor
InitIp ==
  /\ now = 0
  /\ cfg = [m \in {"default"} |-> [max_requests |-> 1, window_seconds |-> 1]]
  /\ limiters = [m \in {"default"} |-> [i \in Ips |-> NoEntry]]
  /\ heap = <<>>
  /\ task = [t \in {1} |-> IdleTask]
  /\ sweep = [m \in {"default"} |-> IdleSweep]
  /\ reqs = 0
  /\ ticks = 0
  /\ sweeps = 0
  /\ env = Env(0, 0, 0, {}, {}, FALSE)
  /\ hist = [m \in {"default"} |-> [i \in Ips |-> NoHistory]]
  /\ \E xff \in HeaderOpt(MaxForwardedLen), xreal \in HeaderOpt(MaxRealIpLen),
        conn \in PeerOpt :
       req = [xff |-> xff, xreal |-> xreal, conn |-> conn, state |-> "parts"]

Extract ==
  /\ req.state = "parts"
  /\ req' = [req EXCEPT !.state = "extracted"] @@ [out |-> from_request_parts(req)]
  /\ UNCHANGED <<now, cfg, limiters, heap, task, sweep, reqs, ticks, sweeps, env, hist>>

\* create_app's rate-limit layers: from_fn(move |ConnectInfo(addr), req, next|
\* rate_limiter.apply(ClientIp(addr.ip()), req, next)): the identity handed to
\* apply is the peer address of the connection; without connection info the
\* ConnectInfo extractor refuses the request before the closure runs
RouteLayer ==
  /\ req.state = "parts"
  /\ req' = IF req.conn.some
              THEN [req EXCEPT !.state = "applied"] @@ [identity |-> req.conn.v]
              ELSE [req EXCEPT !.state = "refused"]
  /\ UNCHANGED <<now, cfg, limiters, heap, task, sweep, reqs, ticks, sweeps, env, hist>>

NextIp == Extract \/ RouteLayer

SpecIp == InitIp /\ [][NextIp]_vars

SpecMulti == InitMulti /\ [][Next]_vars

\* ------------------------------------------------------ the named presets
\* RateLimitConfig::auth
RateLimitConfig_auth == [max_requests |-> 5, window_seconds |-> 60]

\* RateLimitConfig::admin
RateLimitConfig_admin == [max_requests |-> 10, window_seconds |-> 60]

\* RateLimitConfig::read_only
RateLimitConfig_read_only == [max_requests |-> 100, window_seconds |-> 60]

\* RateLimitConfig::default
RateLimitConfig_default == [max_requests |-> 30, window_seconds |-> 60]

\* a strict preset of four requests per minute
RateLimitConfig_strict_four == [max_requests |-> 4, window_seconds |-> 60]

\* RateLimitConfig::strict
RateLimitConfig_strict == [max_requests |-> 3, window_seconds |-> 60]

PresetNames == {"auth", "admin", "read_only", "default", "strict"}

Preset(m) ==
  CASE m = "auth" -> RateLimitConfig_auth
    [] m = "admin" -> RateLimitConfig_admin
    [] m = "read_only" -> RateLimitConfig_read_only
    [] m = "default" -> RateLimitConfig_default
    [] m = "strict" -> RateLimitConfig_strict

\* create_rate_limiter(RateLimitConfig::<preset>()) for one of the named
\* presets, one request task
InitPresets ==
  \E p \in PresetNames :
    InitOf({p}, {1}, {Preset(p)},
           Env(MaxRequests, MaxTicks, MaxSweeps, Ips, {200}, FALSE))

\* one instance, two tasks, every downstream result
InitApply ==
  InitOf({"default"}, Tasks, ConfigSet,
         Env(ApplyRequests, MaxTicks, MaxSweeps, Ips, DownstreamResults, FALSE))

SpecApply == InitApply /\ [][Next]_vars

\* one instance, two tasks, the history of the cleanup runs kept
InitSweep ==
  InitOf({"default"}, Tasks, ConfigSet,
         Env(SweepRequests, MaxTicks, MaxSweeps, Ips, {200}, TRUE))

SpecSweep == InitSweep /\ [][Next]_vars

\* one instance, two tasks, one identity, two clock advances, the history of
\* the requests kept
InitSlow ==
  InitOf({"default"}, Tasks, {[max_requests |-> 1, window_seconds |-> 1]},
         Env(SweepRequests, SlowTicks, MaxSweeps, {"A"}, {200}, TRUE))

SpecSlow == InitSlow /\ [][Next]_vars

\* RateLimitConfig is a plain struct with public fields (and Deserialize):
\* window_seconds can be any u64, here an hour and two hours
LongConfigSet ==
  [max_requests : 1..MaxBurst, window_seconds : {StaleAfter, StaleAfter + StaleAfter}]

\* one instance with a long window, one task, one identity
InitLong ==
  InitOf({"default"}, {1}, LongConfigSet,
         Env(MaxRequests, MaxTicks, MaxSweeps, {"A"}, {200}, FALSE))

SpecLong == InitLong /\ [][Next]_vars

SpecPresets == InitPresets /\ [][Next]_vars

\* ------------------------------------------------ the process keeps running
\* the clock advances that outlast the staleness threshold
LongDeltas == {d \in Deltas : d > StaleAfter}

\* the cleanup runs that can fall due while the clock makes LiveTicks such
\* advances from 0
LiveSweeps ==
  (LiveTicks * (CHOOSE d \in Deltas : \A e \in Deltas : e <= d)) \div CleanupInterval + 1

LiveMids == {"default"}

\* one instance, one task, one identity; the clock only makes long advances
\* and the cleanup runs are as many as fall due
InitLive ==
  InitOf(LiveMids, {1}, ConfigSet,
         [Env(LiveRequests, LiveTicks, LiveSweeps, {"A"}, {200}, FALSE)
            EXCEPT !.deltas = LongDeltas])

\* the cleanup task was spawned on the runtime and loops for ever: a step of
\* it that stays possible is taken; and time passes
EvictorFairness ==
  /\ WF_vars(\E d \in Deltas : Tick(d))
  /\ \A m \in LiveMids :
       /\ WF_vars(SweepStart(m))
       /\ WF_vars(\E ip \in Ips : SweepShard(m, ip))
       /\ WF_vars(SweepEnd(m))

SpecLive == InitLive /\ [][Next]_vars /\ EvictorFairness

\* --------------------------------------------- the shard locks of the DashMap
\* get_mut and insert take the write lock of the shard the key hashes to, and
\* retain takes the write lock of one shard after the other and holds it
\* while it runs the closure on the shard's entries.  Every identity has a
\* shard of its own here.  The request path releases its lock within the
\* step that took it (the RefMut of get_mut is dropped at the return), so
\* only the lock of retain is held from one step to the next.
Held(m, ip) ==
  \E k \in DOMAIN sweep : registry(k) = registry(m) /\ sweep[k].shard = ip

\* apply is entered and calls get_limiter, which calls get_mut(&ip)
ShardApply(t, m, ip) ==
  /\ task[t].pc = "idle"
  /\ \A u \in DOMAIN task : u < t => task[u].pc # "idle"
  /\ reqs = 0 => ip = "A"
  /\ ip \in env.ips
  /\ reqs < env.reqs
  /\ reqs' = reqs + 1
  /\ task' = [task EXCEPT ![t] = [IdleTask EXCEPT !.pc = "get_mut", !.mid = m, !.ip = ip]]
  /\ UNCHANGED <<now, cfg, limiters, heap, sweep, ticks, sweeps, req, env, hist>>

\* get_mut gets the shard's write lock once retain does not hold it; on a hit
\* touch and return the Arc clone, on a miss go on to the construction
ShardGetMut(t) ==
  /\ task[t].pc = "get_mut"
  /\ ~Held(task[t].mid, task[t].ip)
  /\ LET r == registry(task[t].mid)
         ip == task[t].ip
         entry == get_mut(limiters[r], ip)
     IN IF entry.limiter # 0
          THEN /\ limiters' = [limiters EXCEPT ![r][ip] = touch(entry, now)]
               /\ task' = [task EXCEPT ![t].pc = "check", ![t].lim = entry.limiter]
          ELSE /\ limiters' = limiters
               /\ task' = [task EXCEPT ![t].pc = "create"]
  /\ UNCHANGED <<now, cfg, heap, sweep, reqs, ticks, sweeps, req, env, hist>>

\* insert gets the shard's write lock once retain does not hold it
ShardInsert(t) ==
  /\ ~Held(task[t].mid, task[t].ip)
  /\ GetLimiterInsert(t)

\* retain comes to a shard and takes its write lock
ShardLock(m, ip) ==
  /\ sweep[m].pc = "retain"
  /\ sweep[m].shard = "none"
  /\ ip \in sweep[m].pending
  /\ sweep' = [sweep EXCEPT ![m].shard = ip]
  /\ UNCHANGED <<now, cfg, limiters, heap, task, reqs, ticks, sweeps, req, env, hist>>

\* retain runs the closure on the locked shard's entries and unlocks it
ShardRetain(m) ==
  /\ sweep[m].shard # "none"
  /\ limiters' = [limiters EXCEPT ![registry(m)] = retain_shard(@, sweep[m].shard, now)]
  /\ sweep' = [sweep EXCEPT ![m].pending = @ \ {sweep[m].shard}, ![m].shard = "none"]
  /\ UNCHANGED <<now, cfg, heap, task, reqs, ticks, sweeps, req, env, hist>>

NextShard ==
  \/ \E t \in DOMAIN task, m \in DOMAIN cfg, ip \in Ips : ShardApply(t, m, ip)
  \/ \E t \in DOMAIN task : ShardGetMut(t)
  \/ \E t \in DOMAIN task : GetLimiterCreate(t)
  \/ \E t \in DOMAIN task : ShardInsert(t)
  \/ \E t \in DOMAIN task : CheckLoad(t)
  \/ \E t \in DOMAIN task : CheckCas(t)
  \/ \E t \in DOMAIN task : Respond(t)
  \/ \E m \in DOMAIN cfg : SweepStart(m)
  \/ \E m \in DOMAIN cfg, ip \in Ips : ShardLock(m, ip)
  \/ \E m \in DOMAIN cfg : ShardRetain(m)
  \/ \E m \in DOMAIN cfg : SweepEnd(m)
  \/ \E d \in Deltas : Tick(d)

\* one instance, two tasks
InitShard ==
  InitOf({"default"}, Tasks, ConfigSet,
         Env(ShardRequests, MaxTicks, MaxSweeps, Ips, {200}, FALSE))

SpecShard == InitShard /\ [][NextShard]_vars

\* --------------------------------------------------- the RwLock registry
\* api/src/middleware/rate_limit.rs: limiters is an
\* Arc<RwLock<HashMap<IpAddr, IpRateLimiter>>>; a map entry is the limiter
\* alone (its last_accessed stays 0 here).  The cleanup holds the write lock
\* from its start to its end; get_limiter holds the read lock, and later the
\* write lock, within one step each.
WriteHeld(m) == sweep[m].pc = "retain"

\* apply is entered and calls get_limiter, which calls limiters.read().await
RwApply(t, m, ip) ==
  /\ task[t].pc = "idle"
  /\ \A u \in DOMAIN task : u < t => task[u].pc # "idle"
  /\ reqs = 0 => ip = "A"
  /\ ip \in env.ips
  /\ reqs < env.reqs
  /\ reqs' = reqs + 1
  /\ hist' = IF env.audit THEN [hist EXCEPT ![m][ip] = Requested(@, now)] ELSE hist
  /\ task' = [task EXCEPT ![t] = [IdleTask EXCEPT !.pc = "read", !.mid = m, !.ip = ip]]
  /\ UNCHANGED <<now, cfg, limiters, heap, sweep, ticks, sweeps, req, env>>

\* under the read lock: limiters.get(&ip); on a hit return the clone, on a
\* miss drop the read lock and call limiters.write().await
RwRead(t) ==
  /\ task[t].pc = "read"
  /\ ~WriteHeld(task[t].mid)
  /\ LET entry == limiters[task[t].mid][task[t].ip] IN
       task' = IF entry.limiter # 0
                 THEN [task EXCEPT ![t].pc = "check", ![t].lim = entry.limiter]
                 ELSE [task EXCEPT ![t].pc = "write",
                                   ![t].fresh = env.audit /\ \A id \in DOMAIN heap :
                                     ~(heap[id].mid = task[t].mid /\ heap[id].ip = task[t].ip)]
  /\ UNCHANGED <<now, cfg, limiters, heap, sweep, reqs, ticks, sweeps, req, env, hist>>

\* under the write lock: limiters.get(&ip) once more
double_check(map, ip) == map[ip]

\* under the write lock: the double check, and on a miss the construction of
\* the limiter and its insertion
RwWrite(t) ==
  /\ task[t].pc = "write"
  /\ ~WriteHeld(task[t].mid)
  /\ LET m == task[t].mid
         ip == task[t].ip
         entry == double_check(limiters[m], ip)
         id == Len(heap) + 1
     IN IF entry.limiter # 0
          THEN /\ task' = [task EXCEPT ![t].pc = "check", ![t].lim = entry.limiter]
               /\ UNCHANGED <<heap, limiters>>
          ELSE IF with_period(cfg[m].window_seconds).some
            THEN /\ heap' = Append(heap, RateLimiter_direct(m, ip, Quota(cfg[m]), now))
                 /\ limiters' = [limiters EXCEPT ![m][ip] = LimiterState_new(id, 0)]
                 /\ task' = [task EXCEPT ![t].pc = "check", ![t].lim = id]
            ELSE /\ task' = [task EXCEPT ![t].pc = "panicked"]
                 /\ UNCHANGED <<heap, limiters>>
  /\ UNCHANGED <<now, cfg, sweep, reqs, ticks, sweeps, req, env, hist>>

\* interval.tick() fires, limiters.write().await, initial_count = len()
RwSweepStart(m) ==
  /\ sweep[m].pc = "sleep"
  /\ sweeps < env.sweeps
  /\ now >= sweep[m].next_tick
  /\ sweeps' = sweeps + 1
  /\ sweep' = [sweep EXCEPT ![m].pc = "retain",
                            ![m].pending = Ips,
                            ![m].initial_count = len(limiters[m]),
                            ![m].next_tick = interval_tick(@)]
  /\ UNCHANGED <<now, cfg, limiters, heap, task, reqs, ticks, req, env, hist>>

\* one limiter.check() at clock reading t, start to end
check(b, t) ==
  LET d == Decide(b.quota, b.tat, t - b.start) IN
    [ok |-> d.ok, b |-> [b EXCEPT !.tat = d.next]]

\* the closure of retain on one limiter:
\*   limiter.check().is_err() || limiter.check().is_ok()
\* a rejected first check keeps the limiter; after an admitted first check
\* the second check is made and its admission decides
retain_closure(b, t) ==
  LET c1 == check(b, t) IN
    IF ~c1.ok THEN [keep |-> TRUE, b |-> c1.b]
    ELSE LET c2 == check(c1.b, t) IN [keep |-> c2.ok, b |-> c2.b]

\* retain on the entry of ip
RwRetain(m, ip) ==
  /\ sweep[m].pc = "retain"
  /\ ip \in sweep[m].pending
  /\ sweep' = [sweep EXCEPT ![m].pending = @ \ {ip}]
  /\ LET id == limiters[m][ip].limiter IN
       IF id = 0
         THEN UNCHANGED <<heap, limiters>>
         ELSE LET c == retain_closure(heap[id], now) IN
                /\ heap' = [heap EXCEPT ![id] = c.b]
                /\ limiters' = IF c.keep THEN limiters
                                ELSE [limiters EXCEPT ![m][ip] = NoEntry]
  /\ UNCHANGED <<now, cfg, task, reqs, ticks, sweeps, req, env, hist>>

\* final_count = len(), the log line, and the write lock is dropped at the
\* end of the loop body
RwSweepEnd(m) ==
  /\ sweep[m].pc = "retain"
  /\ sweep[m].pending = {}
  /\ LET final_count == len(limiters[m]) IN
       sweep' = [sweep EXCEPT ![m].pc = "sleep",
                              ![m].cleaned = IF sweep[m].initial_count > final_count
                                               THEN sweep[m].initial_count - final_count
                                               ELSE 0]
  /\ UNCHANGED <<now, cfg, limiters, heap, task, reqs, ticks, sweeps, req, env, hist>>

NextRw ==
  \/ \E t \in DOMAIN task, m \in DOMAIN cfg, ip \in Ips : RwApply(t, m, ip)
  \/ \E t \in DOMAIN task : RwRead(t)
  \/ \E t \in DOMAIN task : RwWrite(t)
  \/ \E t \in DOMAIN task : CheckLoad(t)
  \/ \E t \in DOMAIN task : CheckCas(t)
  \/ \E t \in DOMAIN task : Respond(t)
  \/ \E m \in DOMAIN cfg : RwSweepStart(m)
  \/ \E m \in DOMAIN cfg, ip \in Ips : RwRetain(m, ip)
  \/ \E m \in DOMAIN cfg : RwSweepEnd(m)
  \/ \E d \in Deltas : Tick(d)

\* one instance, two tasks, the history of the requests kept
InitRw ==
  InitOf({"default"}, Tasks, ConfigSet,
         Env(RwRequests, MaxTicks, MaxSweeps, Ips, {200}, TRUE))

SpecRw == InitRw /\ [][NextRw]_vars

\* ------------------------------------------- a preset's bucket, partly used
\* the cell of a fresh limiter after k checks made the moment it was built,
\* k no more than the burst: by Decide the first check finds the cell unset,
\* takes t as its value and stores t + t, and each of the others, admitted
\* as well, stores t more
Drained(q, k) == IF k = 0 THEN 0 ELSE (k + 1) * GcraT(q)

\* the limiter b, fresh, after those k checks
Used(b, k) ==
  [b EXCEPT !.tat = Drained(b.quota, k), !.admits = [i \in 1..k |-> b.start]]

\* create_rate_limiter of one of the named presets, one request task, one
\* identity whose first k requests, all at time 0, have been admitted
InitEvict ==
  \E p \in PresetNames :
    \E k \in 0..Preset(p).max_requests :
      /\ now = 0
      /\ cfg = [m \in {p} |-> Preset(p)]
      /\ heap = IF k = 0 THEN <<>>
                ELSE <<Used(RateLimiter_direct(p, "A", Quota(Preset(p)), 0), k)>>
      /\ limiters = [m \in {p} |->
                       [i \in Ips |-> IF k > 0 /\ i = "A" THEN LimiterState_new(1, 0)
                                                         ELSE NoEntry]]
      /\ task = [t \in {1} |-> IdleTask]
      /\ sweep = [m \in {p} |-> IdleSweep]
      /\ reqs = k
      /\ ticks = 0
      /\ sweeps = 0
      /\ req = NoParts
      /\ env = Env(k + EvictRequests, MaxTicks, MaxSweeps, {"A"}, {200}, FALSE)
      /\ hist = [m \in {p} |-> [i \in Ips |-> NoHistory]]

SpecEvict == InitEvict /\ [][Next]_vars

\* ------------------------------------------------------- test_cleanup_task
\* The statements of the test, each named by what it is about to do:
\*   "new"       limiters = DashMap::new(), quota, limiter1, limiter2
\*   "insert1"   limiters.insert(ip1, LimiterState::new(limiter1))
\*   "insert2"   limiters.insert(ip2, LimiterState::new(limiter2))
\*   "get_mut"   let mut stale_entry = limiters.get_mut(&ip1).unwrap()
\*   "backdate"  stale_entry.last_accessed = Instant::now() - 4000 s
\*   "len"       assert_eq!(limiters.len(), 2)
\*   "retain"    limiters.retain(|_, state| !state.is_stale(stale_after))
\*   "len_after" assert_eq!(limiters.len(), 1)
\*   "contains"  assert!(limiters.contains_key(&ip2))
\*   "passed" / "failed": the test has returned / an assertion has panicked
\* ip1 is "A", ip2 is "B"; the map is the registry "test".
TestStatements ==
  {"new", "insert1", "insert2", "get_mut", "backdate", "len", "retain",
   "len_after", "contains"}

\* the scope of stale_entry: from its let to the end of the function.  It is
\* a RefMut, which holds the write lock of ip1's shard until it is dropped.
HandleHeld(pc) == pc \in {"backdate", "len", "retain", "len_after", "contains"}

\* len() takes the read lock and retain() the write lock of every shard, one
\* after the other; the locks are not reentrant, so a statement that needs
\* the shard of ip1 while this thread's stale_entry holds it waits for ever
test_blocked(pc) == HandleHeld(pc) /\ pc \in {"len", "retain", "len_after"}

\* the duration the test back-dates ip1's entry by
Backdate == 4000

\* the next statement of the test
TestStep ==
  LET pc == task[1].pc
      map == limiters["test"]
      to(next) == [task EXCEPT ![1].pc = next]
  IN
  /\ pc \in TestStatements
  /\ ~test_blocked(pc)
  /\ CASE pc = "new" ->
             /\ heap' = <<RateLimiter_direct("test", "A", Quota(cfg["test"]), now),
                          RateLimiter_direct("test", "B", Quota(cfg["test"]), now)>>
             /\ limiters' = limiters
             /\ task' = to("insert1")
       [] pc = "insert1" ->
             /\ limiters' = [limiters EXCEPT !["test"] =
                               insert(@, "A", LimiterState_new(1, now))]
             /\ heap' = heap
             /\ task' = to("insert2")
       [] pc = "insert2" ->
             /\ limiters' = [limiters EXCEPT !["test"] =
                               insert(@, "B", LimiterState_new(2, now))]
             /\ heap' = heap
             /\ task' = to("get_mut")
       [] pc = "get_mut" ->
             /\ task' = to(IF get_mut(map, "A").limiter # 0 THEN "backdate" ELSE "failed")
             /\ UNCHANGED <<heap, limiters>>
       [] pc = "backdate" ->
             /\ limiters' = [limiters EXCEPT !["test"]["A"].last_accessed = now - Backdate]
             /\ heap' = heap
             /\ task' = to("len")
       [] pc = "len" ->
             /\ task' = to(IF len(map) = 2 THEN "retain" ELSE "failed")
             /\ UNCHANGED <<heap, limiters>>
       [] pc = "retain" ->
             /\ limiters' = [limiters EXCEPT !["test"] =
                               retain_shard(retain_shard(@, "A", now), "B", now)]
             /\ heap' = heap
             /\ task' = to("len_after")
       [] pc = "len_after" ->
             /\ task' = to(IF len(map) = 1 THEN "contains" ELSE "failed")
             /\ UNCHANGED <<heap, limiters>>
       [] pc = "contains" ->
             /\ task' = to(IF map["B"].limiter # 0 THEN "passed" ELSE "failed")
             /\ UNCHANGED <<heap, limiters>>
  /\ UNCHANGED <<now, cfg, sweep, reqs, sweeps, ticks, req, env, hist>>

\* the test is about to run its first statement; the quota is
\* with_period(60 s).allow_burst(10)
InitTest ==
  /\ now = 0
  /\ cfg = [m \in {"test"} |-> [max_requests |-> 10, window_seconds |-> 60]]
  /\ limiters = [m \in {"test"} |-> [i \in Ips |-> NoEntry]]
  /\ heap = <<>>
  /\ task = [t \in {1} |-> [IdleTask EXCEPT !.pc = "new", !.mid = "test"]]
  /\ sweep = [m \in {"test"} |-> IdleSweep]
  /\ reqs = 0
  /\ ticks = 0
  /\ sweeps = 0
  /\ req = NoParts
  /\ env = Env(0, TestTicks, 0, {}, {}, FALSE)
  /\ hist = [m \in {"test"} |-> [i \in Ips |-> NoHistory]]

NextTest ==
  \/ TestStep
  \/ \E d \in Deltas : Tick(d)

SpecTest == InitTest /\ [][NextTest]_vars

\* ------------------------------------------ configurations of any field value
\* max_requests is a NonZeroU32, window_seconds any u64: 0 too
AnyConfigSet == [max_requests : 1..MaxBurst, window_seconds : 0..MaxWindow]

InitAny ==
  InitOf({"default"}, Tasks, AnyConfigSet,
         Env(AnyRequests, MaxTicks, MaxSweeps, Ips, {200}, FALSE))

SpecAny == InitAny /\ [][Next]_vars

\* ======================================================================
\* Properties
\* ======================================================================
Terminal(t) == task[t].pc \in {"admitted", "rejected"}

\* the number of consecutive checks at t0 that a cell holding prev admits
RECURSIVE Tokens(_, _, _)
Tokens(q, prev, t0) ==
  LET d == Decide(q, prev, t0) IN
    IF d.ok THEN 1 + Tokens(q, d.next, t0) ELSE 0

\* the limiters ever built for identity ip under instance m
BucketsOf(m, ip) == {id \in DOMAIN heap : heap[id].mid = m /\ heap[id].ip = ip}

\* the admissions of identity ip under instance m, as (limiter, index) pairs
AdmitsOf(m, ip) ==
  {x \in BucketsOf(m, ip) \X (1..MaxRequests + 1) : x[2] <= Len(heap[x[1]].admits)}

AdmitAt(x) == heap[x[1]].admits[x[2]]

\* ---------------------------------------------------------------------
\* C1: on a limiter fresh from get_limiter, with no time passed since it was
\* built, a check is rejected only when max_requests checks were admitted
\* before it, and never more than max_requests are admitted: the first N
\* checks admit and the (N+1)th rejects.
C1_ExactBurst ==
  \A id \in DOMAIN heap :
    now = heap[id].start =>
      /\ Len(heap[id].admits) <= heap[id].quota.max_burst
      /\ \A t \in DOMAIN task :
           (task[t].pc = "rejected" /\ task[t].lim = id)
             => Len(heap[id].admits) = cfg[heap[id].mid].max_requests

C1_Witness ==
  \E t \in DOMAIN task :
    /\ task[t].pc = "rejected"
    /\ now = heap[task[t].lim].start
    /\ cfg[task[t].mid].max_requests = MaxBurst
    /\ Len(heap[task[t].lim].admits) = MaxBurst

\* ---------------------------------------------------------------------
\* C2: for every identity and registry, every time interval [s, s + window)
\* holds at most max_requests admitted requests of that identity.
C2_RollingWindow ==
  \A m \in DOMAIN cfg, ip \in Ips :
    \A x \in AdmitsOf(m, ip) :
      Cardinality({y \in AdmitsOf(m, ip) :
                     /\ AdmitAt(x) <= AdmitAt(y)
                     /\ AdmitAt(y) < AdmitAt(x) + cfg[m].window_seconds})
        <= cfg[m].max_requests

\* ---------------------------------------------------------------------
\* C3: a check made window_seconds / max_requests seconds after a fresh
\* limiter was drained by max_requests checks is admitted, and it is the only
\* check admitted at that time.
C3_RefillAfterShare ==
  \A t \in DOMAIN task :
    LET b == heap[task[t].lim]
        n == b.quota.max_burst
        w == b.quota.replenish_1_per
    IN (/\ Terminal(t)
        /\ w % n = 0
        /\ task[t].t0 = w \div n
        /\ Cardinality({i \in 1..Len(b.admits) : b.admits[i] = b.start}) = n
        /\ \A i \in 1..Len(b.admits) : b.admits[i] \in {b.start, b.start + task[t].t0})
       => Len(b.admits) = n + 1

\* ---------------------------------------------------------------------
\* C4: as long as no cleanup run has started, at most one limiter is ever
\* built for an identity of a registry, and every task holding a limiter for
\* that identity holds the one stored in the map.
C4_OneBucketPerIdentity ==
  sweeps = 0 =>
    /\ \A m \in DOMAIN cfg, ip \in Ips : Cardinality(BucketsOf(m, ip)) <= 1
    /\ \A t \in DOMAIN task :
         task[t].lim # 0 => limiters[registry(task[t].mid)][task[t].ip].limiter = task[t].lim

\* ---------------------------------------------------------------------
\* C5: while no time has passed, the admissions of one identity under one
\* registry, over all callers, never exceed max_requests.
C5_RaceAdmitsBounded ==
  now = 0 =>
    \A m \in DOMAIN cfg, ip \in Ips :
      Cardinality(AdmitsOf(m, ip)) <= cfg[m].max_requests

\* ---------------------------------------------------------------------
\* C6: of two checks that found the same limiter in the same state with
\* exactly one token left, at the same clock reading, exactly one is admitted
\* and the other rejected, whenever no third caller's admission came in
\* between.
C6_Concurrent(t1, t2) ==
  /\ t1 # t2
  /\ Terminal(t1) /\ Terminal(t2)
  /\ task[t1].lim = task[t2].lim
  /\ task[t1].t0 = task[t2].t0
  /\ task[t1].first = task[t2].first
  /\ task[t1].n0 = task[t2].n0
  /\ Tokens(heap[task[t1].lim].quota, task[t1].first, task[t1].t0) = 1

C6_Admitted(t1, t2) == Cardinality({t \in {t1, t2} : task[t].pc = "admitted"})

C6_OneTokenOneAdmit ==
  \A t1, t2 \in DOMAIN task :
    (/\ C6_Concurrent(t1, t2)
     /\ Len(heap[task[t1].lim].admits) = task[t1].n0 + C6_Admitted(t1, t2))
      => C6_Admitted(t1, t2) = 1

C6_Witness ==
  \E t1, t2 \in DOMAIN task :
    /\ C6_Concurrent(t1, t2)
    /\ task[t1].pc = "admitted"
    /\ task[t2].pc = "rejected"
    /\ Len(heap[task[t1].lim].admits) = task[t1].n0 + 1

\* ---------------------------------------------------------------------
\* C7: a limiter handed to a request belongs to that request's identity, and
\* a step of a request of identity A changes neither the registry entry nor
\* any limiter of another identity B: B's outcomes do not depend on A.
C7_OwnBucket ==
  \A t \in DOMAIN task :
    task[t].lim # 0 => heap[task[t].lim].ip = task[t].ip

C7_Frame ==
  \A t \in DOMAIN task :
    task'[t] # task[t] =>
      LET a == IF task[t].pc = "idle" THEN task'[t] ELSE task[t] IN
        /\ \A i \in Ips \ {a.ip} :
             limiters'[registry(a.mid)][i] = limiters[registry(a.mid)][i]
        /\ \A id \in DOMAIN heap : heap[id].ip # a.ip => heap'[id] = heap[id]

C7_IdentityIndependence == [](C7_OwnBucket) /\ [][C7_Frame]_vars

C7_Witness ==
  \E t1, t2 \in DOMAIN task :
    /\ task[t1].pc = "rejected" /\ task[t1].ip = "A"
    /\ task[t2].pc = "admitted" /\ task[t2].ip = "B"
    /\ task[t1].mid = task[t2].mid
    /\ task[t1].t0 + heap[task[t1].lim].start = task[t2].t0 + heap[task[t2].lim].start
    /\ Len(heap[task[t2].lim].admits) = cfg[task[t2].mid].max_requests

\* ---------------------------------------------------------------------
\* C8: instances made by separate create_rate_limiter calls have distinct
\* registries: no limiter is stored under two instances, every stored limiter
\* was built from the quota of the instance storing it, and a request is
\* handed a limiter of its own instance only.
C8_DistinctRegistries ==
  /\ \A m \in DOMAIN cfg, ip \in Ips :
       LET id == limiters[m][ip].limiter IN
         id # 0 => /\ heap[id].mid = m
                   /\ heap[id].quota = Quota(cfg[m])
                   /\ \A m2 \in DOMAIN cfg \ {m}, i2 \in Ips : limiters[m2][i2].limiter # id
  /\ \A t \in DOMAIN task :
       task[t].lim # 0 => heap[task[t].lim].mid = task[t].mid

\* the identity is exhausted under auth and has had default's full burst
C8_Witness ==
  \E b1, b2 \in DOMAIN heap :
    /\ heap[b1].mid = "auth" /\ heap[b2].mid = "default"
    /\ heap[b1].ip = heap[b2].ip
    /\ Len(heap[b1].admits) = cfg["auth"].max_requests
    /\ Tokens(heap[b1].quota, heap[b1].tat, now - heap[b1].start) = 0
    /\ Len(heap[b2].admits) = cfg["default"].max_requests
    /\ \A i \in 1..Len(heap[b2].admits) : heap[b2].admits[i] = now
    /\ \A i \in 1..Len(heap[b1].admits) : heap[b1].admits[i] = now

\* ---------------------------------------------------------------------
\* C9: when the cleanup's retain visits an entry, the entry is removed if its
\* last_accessed is more than the 3600 s threshold back and is kept as it is
\* if its last_accessed is less than the threshold back.
C9_Visit(m, ip) ==
  /\ sweep[m].pc = "retain"
  /\ ip \in sweep[m].pending
  /\ ip \notin sweep'[m].pending

C9_Step ==
  \A m \in DOMAIN cfg, ip \in Ips :
    LET e == limiters[registry(m)][ip] IN
      (C9_Visit(m, ip) /\ e.limiter # 0) =>
        /\ now - e.last_accessed > StaleAfter => limiters'[registry(m)][ip] = NoEntry
        /\ now - e.last_accessed < StaleAfter => limiters'[registry(m)][ip] = e

C9_SweepRemovesStale == [][C9_Step]_vars

\* after a complete cleanup run: an entry aged 4000 s is gone, the fresh one
\* is the only one left
C9_Witness ==
  \E m \in DOMAIN cfg, old \in DOMAIN heap :
    /\ sweeps = 1 /\ sweep[m].pc = "sleep" /\ sweep[m].next_tick > 0
    /\ heap[old].mid = m
    /\ now - heap[old].start = 4000
    /\ limiters[registry(m)][heap[old].ip] = NoEntry
    /\ len(limiters[registry(m)]) = 1
    /\ \E ip \in Ips : /\ limiters[registry(m)][ip].limiter # 0
                      /\ limiters[registry(m)][ip].last_accessed = now

\* ---------------------------------------------------------------------
\* C10: the extractor yields the first comma-separated address of
\* X-Forwarded-For when that is an IP address; otherwise the X-Real-IP
\* address when that is one; otherwise the peer address when connection info
\* is present; otherwise it fails with an error and no address.

\* the number of symbols before the first comma of h
C10_FirstLen(h) ==
  IF \E k \in 1..Len(h) : h[k] = ","
    THEN (CHOOSE k \in 1..Len(h) : h[k] = "," /\ \A j \in 1..(k - 1) : h[j] # ",") - 1
    ELSE Len(h)

\* the positions among the first n of h that hold something other than space
C10_Solid(h, n) == {i \in 1..n : h[i] # " "}

\* h[1..n] is white space around exactly one address literal
C10_IsAddr(h, n) ==
  /\ \A i \in 1..Len(h) : h[i] # "#"
  /\ Cardinality(C10_Solid(h, n)) = 1
  /\ \A i \in C10_Solid(h, n) : h[i] \in AddrLiterals

C10_Addr(h, n) == IpAddrOf(h[CHOOSE i \in C10_Solid(h, n) : TRUE])

C10_XffOk == req.xff.some /\ C10_IsAddr(req.xff.v, C10_FirstLen(req.xff.v))
C10_RealOk == req.xreal.some /\ C10_IsAddr(req.xreal.v, Len(req.xreal.v))

C10_Precedence ==
  req.state = "extracted" =>
    IF C10_XffOk
      THEN req.out = [ok |-> TRUE, ip |-> C10_Addr(req.xff.v, C10_FirstLen(req.xff.v))]
    ELSE IF C10_RealOk
      THEN req.out = [ok |-> TRUE, ip |-> C10_Addr(req.xreal.v, Len(req.xreal.v))]
    ELSE IF req.conn.some
      THEN req.out = [ok |-> TRUE, ip |-> req.conn.v]
    ELSE ~req.out.ok

\* both headers carry an address and a peer address is known: the first
\* address of X-Forwarded-For ("192.168.0.1, 2001:db8::1") wins
C10_Witness ==
  /\ req.state = "extracted"
  /\ req.xff = Some(<<"v4", ",", "v6">>)
  /\ req.xreal = Some(<<"v6full">>)
  /\ req.conn = Some("127.0.0.1")
  /\ req.out = [ok |-> TRUE, ip |-> "192.168.0.1"]

\* ---------------------------------------------------------------------
\* C11: the identity a rate-limited route group hands to apply is the one
\* the ClientIp extractor resolves for the same request (X-Forwarded-For
\* first, then X-Real-IP, then the peer address).
C11_ResolvedIdentity ==
  req.state = "applied" =>
    from_request_parts(req) = [ok |-> TRUE, ip |-> req.identity]

\* ---------------------------------------------------------------------
\* C12: an apply whose check admitted runs the downstream exactly once and
\* returns the downstream's response as it is; an apply whose check rejected
\* never runs the downstream and ends in 429 Too Many Requests.
C12_Step ==
  \A t \in DOMAIN task :
    /\ (task[t].pc = "admitted" /\ task'[t].pc = "idle") =>
         /\ task'[t].calls = 1
         /\ task'[t].downstream # Dropped =>
              task'[t].out = [kind |-> "Ok", status |-> task'[t].downstream]
         /\ task'[t].downstream = Dropped => task'[t].out.kind = "dropped"
    /\ (task[t].pc = "rejected" /\ task'[t].pc = "idle") =>
         /\ task'[t].calls = 0
         /\ task'[t].downstream = 0
         /\ task'[t].out = [kind |-> "Err", status |-> 429]

C12_AdmitForwardsRejectStops == [][C12_Step]_vars

\* one request was answered by the downstream's 500, another by 429
C12_Witness ==
  \E t1, t2 \in DOMAIN task :
    /\ task[t1].pc = "idle" /\ task[t2].pc = "idle"
    /\ task[t1].calls = 1 /\ task[t1].out = [kind |-> "Ok", status |-> 500]
    /\ task[t2].calls = 0 /\ task[t2].out = [kind |-> "Err", status |-> 429]

\* ---------------------------------------------------------------------
\* C13: an instance built from a named preset is configured with
\* auth = 5 requests / 60 s, admin = 10 / 60 s, default = 30 / 60 s,
\* read_only = 100 / 60 s, strict = 3 / 60 s, and every limiter it builds
\* has that burst and a 60 s period.
C13_Quota(m) ==
  CASE m = "auth" -> [max_requests |-> 5, window_seconds |-> 60]
    [] m = "admin" -> [max_requests |-> 10, window_seconds |-> 60]
    [] m = "default" -> [max_requests |-> 30, window_seconds |-> 60]
    [] m = "read_only" -> [max_requests |-> 100, window_seconds |-> 60]
    [] m = "strict" -> [max_requests |-> 3, window_seconds |-> 60]

C13_PresetQuotas ==
  /\ DOMAIN cfg \subseteq {"auth", "admin", "default", "read_only", "strict"}
  /\ \A m \in DOMAIN cfg : cfg[m] = C13_Quota(m)
  /\ \A id \in DOMAIN heap :
       /\ heap[id].quota.max_burst = C13_Quota(heap[id].mid).max_requests
       /\ heap[id].quota.replenish_1_per = 60

\* the strict instance has admitted three requests of one identity at one
\* instant and has no token left for it
C13_Witness ==
  \E id \in DOMAIN heap :
    /\ heap[id].mid = "strict"
    /\ Len(heap[id].admits) = 3
    /\ \A i \in 1..3 : heap[id].admits[i] = now
    /\ Tokens(heap[id].quota, heap[id].tat, now - heap[id].start) = 0

\* ---------------------------------------------------------------------
\* C14: the token taken by an admitted request is never given back: the end
\* of an admitted apply, whether the downstream answered with success, with
\* failure or was dropped, leaves every limiter as the debit left it, and no
\* step ever moves a limiter's cell back (tokens come back only as the clock
\* moves on against the cell).
C14_Available(b, t) == Tokens(b.quota, b.tat, t - b.start)

C14_Step ==
  /\ \A t \in DOMAIN task :
       (task[t].pc = "admitted" /\ task'[t].pc = "idle") => heap' = heap
  /\ \A id \in DOMAIN heap : heap'[id].tat >= heap[id].tat

C14_NoRefund == [][C14_Step]_vars

\* two requests of one identity were admitted at one instant by a limiter
\* of burst 2; one downstream call was dropped, the other answered 500; the
\* limiter has no token left
C14_Witness ==
  /\ Len(heap) = 1
  /\ heap[1].quota.max_burst = 2
  /\ heap[1].admits = <<now, now>>
  /\ C14_Available(heap[1], now) = 0
  /\ \E t1, t2 \in DOMAIN task :
       /\ task[t1].pc = "idle" /\ task[t1].out.kind = "dropped" /\ task[t1].calls = 1
       /\ task[t2].pc = "idle" /\ task[t2].out = [kind |-> "Ok", status |-> 500]

\* ---------------------------------------------------------------------
\* C15: a check that rejects leaves the limiter as it found it: the cell,
\* the tokens available at the time of the check and the time from which
\* the next check is admitted are the same after the rejection as before.
C15_NextAvailable(b) == b.start + Max(b.tat - GcraTau(b.quota), 0)

C15_Step ==
  \A t \in DOMAIN task :
    (task[t].pc \in {"check", "cas"} /\ task'[t].pc = "rejected") =>
      /\ heap' = heap
      /\ LET b == heap[task[t].lim]
             c == heap'[task[t].lim]
         IN /\ c.tat = b.tat
            /\ Tokens(c.quota, c.tat, now - c.start) = Tokens(b.quota, b.tat, now - b.start)
            /\ C15_NextAvailable(c) = C15_NextAvailable(b)

C15_RejectConsumesNothing == [][C15_Step]_vars

\* a limiter of burst 1 admitted one check and then rejected two more at
\* the same instant; its cell is where the one admission put it
C15_Witness ==
  \E t1, t2 \in DOMAIN task :
    /\ t1 # t2
    /\ task[t1].pc = "rejected" /\ task[t2].pc = "rejected"
    /\ task[t1].lim = task[t2].lim
    /\ LET b == heap[task[t1].lim] IN
         /\ b.quota.max_burst = 1
         /\ b.admits = <<now>>
         /\ b.tat = (now - b.start) + 2 * GcraT(b.quota)
         /\ C15_NextAvailable(b) = now + GcraT(b.quota)

\* ---------------------------------------------------------------------
\* C16: while the registry holds an entry for an identity, no step (lookup,
\* first-seen insertion, cleanup) moves the entry's last_accessed back.
C16_Step ==
  \A m \in DOMAIN cfg, ip \in Ips :
    (limiters[m][ip].limiter # 0 /\ limiters'[m][ip].limiter # 0) =>
      limiters'[m][ip].last_accessed >= limiters[m][ip].last_accessed

C16_LastAccessedMonotone == [][C16_Step]_vars

\* ---------------------------------------------------------------------
\* C17 (as stated): a cleanup run never removes an entry whose last_accessed
\* was read off the clock after that run began.
C17_Step ==
  \A m \in DOMAIN cfg, ip \in Ips :
    (C9_Visit(m, ip) /\ ip \in sweep[m].touched) =>
      limiters'[registry(m)][ip] = limiters[registry(m)][ip]

C17_NeverRemovesTouched == [][C17_Step]_vars

\* C17 (amended): a cleanup run that visits an entry no later than the
\* staleness threshold after the run began never removes it if its
\* last_accessed was read off the clock after the run began.
C17_TimelyStep ==
  \A m \in DOMAIN cfg, ip \in Ips :
    (/\ C9_Visit(m, ip)
     /\ ip \in sweep[m].touched
     /\ now - sweep[m].started <= StaleAfter) =>
      limiters'[registry(m)][ip] = limiters[registry(m)][ip]

C17_TimelySweepKeepsTouched == [][C17_TimelyStep]_vars

\* an entry touched after the run began was visited exactly the threshold
\* after the run began, and kept
C17_Witness ==
  \E m \in DOMAIN cfg, ip \in Ips :
    /\ sweep[m].pc = "retain"
    /\ ip \in sweep[m].spared
    /\ now - sweep[m].started = StaleAfter
    /\ limiters[registry(m)][ip].limiter # 0

\* ---------------------------------------------------------------------
\* C18: an identity whose requests were never more than the staleness
\* threshold (3600 s) apart, and whose latest request is no more than the
\* threshold back, does not lose its entry to a cleanup run.
C18_Recurring(m, ip) ==
  /\ hist[m][ip].last >= 0
  /\ hist[m][ip].regular
  /\ now - hist[m][ip].last <= StaleAfter

C18_Step ==
  \A m \in DOMAIN cfg, ip \in Ips :
    (/\ C9_Visit(m, ip)
     /\ limiters[registry(m)][ip].limiter # 0
     /\ C18_Recurring(m, ip)) =>
      limiters'[registry(m)][ip] = limiters[registry(m)][ip]

C18_RecurringClientKeepsEntry == [][C18_Step]_vars

\* ---------------------------------------------------------------------
\* C19: the staleness threshold of an instance's cleanup task is strictly
\* greater than the instance's window_seconds.
C19_ThresholdExceedsWindow ==
  \A m \in DOMAIN cfg : StaleAfter > cfg[m].window_seconds

\* ---------------------------------------------------------------------
\* C20: a step of a cleanup run (reading the length, visiting a shard,
\* reading the length again) changes no limiter and no entry other than by
\* removing it: an entry that is still there afterwards has the limiter and
\* the last_accessed it had before.
C20_SweepStep(m) ==
  \/ sweep'[m].pc # sweep[m].pc
  \/ sweep'[m].pending # sweep[m].pending

C20_Step ==
  \A m \in DOMAIN cfg :
    C20_SweepStep(m) =>
      /\ heap' = heap
      /\ \A r \in DOMAIN limiters, ip \in Ips :
           limiters'[r][ip] # limiters[r][ip] =>
             /\ r = registry(m)
             /\ limiters'[r][ip] = NoEntry

C20_SweepOnlyRemoves == [][C20_Step]_vars

\* a finished run removed the entry made 4000 s ago and left the other one,
\* touched and debited once just now, as it was
C20_Witness ==
  \E m \in DOMAIN cfg, old, new \in DOMAIN heap :
    /\ sweep[m].pc = "sleep" /\ sweep[m].cleaned = 1
    /\ heap[old].ip # heap[new].ip
    /\ now - heap[old].start = 4000
    /\ limiters[registry(m)][heap[old].ip] = NoEntry
    /\ limiters[registry(m)][heap[new].ip] = [limiter |-> new, last_accessed |-> now]
    /\ heap[new].admits = <<now>>
    /\ heap[new].start = now
    /\ heap[new].tat = 2 * GcraT(heap[new].quota)

\* ---------------------------------------------------------------------
\* C21: the cleanup runs recur for as long as the process runs, so an entry
\* that gets no further lookups (every request has ended, none comes any
\* more) while time goes on is eventually removed from the registry.
C21_Abandoned(m, ip) ==
  /\ limiters[registry(m)][ip].limiter # 0
  /\ \A t \in DOMAIN task : task[t].pc = "idle"
  /\ reqs = env.reqs
  /\ ticks < env.ticks

C21_AbandonedEntryRemoved ==
  \A m \in LiveMids, ip \in Ips :
    C21_Abandoned(m, ip) ~> (limiters[registry(m)][ip] = NoEntry)

\* the identity's last request came after the first cleanup run; a later run
\* has removed its entry
C21_Witness ==
  /\ env.deltas = LongDeltas
  /\ reqs = env.reqs
  /\ sweeps >= 2
  /\ \E id \in DOMAIN heap : heap[id].ip = "A" /\ heap[id].start > 0
  /\ limiters[registry("default")]["A"] = NoEntry
  /\ \A t \in DOMAIN task : task[t].pc = "idle"

\* ---------------------------------------------------------------------
\* C22: no request task is ever at a get_mut or an insert whose shard lock a
\* running cleanup holds (check takes no lock at all).
C22_Waiting(t) ==
  /\ task[t].pc \in {"get_mut", "insert"}
  /\ Held(task[t].mid, task[t].ip)

C22_EvictorNeverBlocksRequests == \A t \in DOMAIN task : ~C22_Waiting(t)

\* ---------------------------------------------------------------------
\* C23: the count a cleanup run logs as cleaned, initial_count - final_count
\* (nothing is logged, 0 here, unless that is positive), is the number of
\* entries its retain removed.
C23_Step ==
  \A m \in DOMAIN cfg :
    (sweep[m].pc = "retain" /\ sweep'[m].pc = "sleep")
      => sweep'[m].cleaned = sweep[m].removed

C23_LoggedCountIsRemovedCount == [][C23_Step]_vars

\* ---------------------------------------------------------------------
\* C24: whatever RateLimitConfig the middleware was made with, no request
\* task ends in the panic of Quota::with_period(..).unwrap() (the period is
\* never refused, window_seconds being at least 1).
C24_ConstructionNeverFails == \A t \in DOMAIN task : task[t].pc # "panicked"

\* ---------------------------------------------------------------------
\* C25: in the RwLock registry, the concurrent get_limiter calls for a new
\* identity (each missed under the read lock before any limiter had been
\* built for it) all return one and the same limiter: only one of them
\* builds a limiter, the others find it at their double check.
C25_FirstCaller(t) ==
  /\ task[t].fresh
  /\ task[t].lim # 0

C25_DoubleCheckedCreation ==
  \A t, u \in DOMAIN task :
    (/\ C25_FirstCaller(t)
     /\ C25_FirstCaller(u)
     /\ task[t].mid = task[u].mid
     /\ task[t].ip = task[u].ip)
      => task[t].lim = task[u].lim

\* ---------------------------------------------------------------------
\* C26: in the RwLock registry, a cleanup run that comes to the limiter of
\* an identity whose last request is more than an hour old, and has ended,
\* removes that limiter.
C26_Visited(m, ip) ==
  /\ sweep[m].pc = "retain"
  /\ ip \in sweep[m].pending
  /\ ip \notin sweep'[m].pending

C26_Idle(m, ip) ==
  /\ limiters[m][ip].limiter # 0
  /\ hist[m][ip].last # -1
  /\ now - hist[m][ip].last > StaleAfter
  /\ \A t \in DOMAIN task : task[t].pc # "idle" => task[t].ip # ip

C26_Step ==
  \A m \in DOMAIN cfg, ip \in Ips :
    (C26_Visited(m, ip) /\ C26_Idle(m, ip)) => limiters'[m][ip] = NoEntry

C26_IdleLimiterRemoved == [][C26_Step]_vars

\* ---------------------------------------------------------------------
\* C27: every clone of a middleware instance works on the instance's one
\* registry: a request whose identity has an entry in the instance's map,
\* whichever earlier clone put it there, is checked against that entry's
\* limiter, with the tokens the earlier requests left.
C27_Lookup(t, m, ip) ==
  /\ task[t].pc = "idle"
  /\ task'[t].pc # "idle"
  /\ task'[t].mid = m
  /\ task'[t].ip = ip

C27_Step ==
  \A t \in DOMAIN task, m \in DOMAIN cfg, ip \in Ips :
    (C27_Lookup(t, m, ip) /\ limiters[registry(m)][ip].limiter # 0)
      => /\ task'[t].pc = "check"
         /\ task'[t].lim = limiters[registry(m)][ip].limiter

C27_ClonesShareRegistry == [][C27_Step]_vars

\* a request of "auth" is rejected at once by the limiter that earlier
\* requests, each made through a clone of its own, have drained
C27_Witness ==
  \E t \in DOMAIN task :
    /\ task[t].pc = "rejected"
    /\ task[t].mid = "auth"
    /\ Len(heap) = 1
    /\ reqs = cfg["auth"].max_requests + 1
    /\ Len(heap[1].admits) = cfg["auth"].max_requests
    /\ now = heap[1].start

\* ---------------------------------------------------------------------
\* C28: under every named preset, a limiter built for an identity whose
\* earlier limiter is gone admits, when it is built, no more checks than
\* the earlier limiter would admit at that time.
\* the cell after i consecutive admitted checks at t0 on a cell holding prev
C28_Cell(q, prev, t0, i) ==
  IF i = 0 THEN prev
  ELSE Max(IF prev = 0 THEN t0 + GcraT(q) ELSE prev, t0) + i * GcraT(q)

\* the number of consecutive checks at t0 that a cell holding prev admits
\* (Tokens, counted without recursion: a preset's burst is up to 100)
C28_Tokens(q, prev, t0) ==
  Cardinality({n \in 1..(q.max_burst + 1) :
                 Decide(q, C28_Cell(q, prev, t0, n - 1), t0).ok})

C28_EvictionGivesNoExtraTokens ==
  \A old, new \in DOMAIN heap :
    (/\ old < new
     /\ heap[old].ip = heap[new].ip
     /\ heap[old].mid = heap[new].mid
     /\ heap[new].start = now
     /\ heap[new].tat = 0)
      => C28_Tokens(heap[new].quota, 0, 0)
           <= C28_Tokens(heap[old].quota, heap[old].tat, now - heap[old].start)

\* ---------------------------------------------------------------------
\* C29: test_cleanup_task never comes to a statement it cannot run: until
\* it has passed or failed, its next statement can be executed.
C29_TestNeverBlocks ==
  task[1].pc \in {"passed", "failed"} \/ ENABLED TestStep

\* ---------------------------------------------------------------------
\* C30: in the RwLock registry, a step of a cleanup run leaves the number of
\* checks every limiter admits at that time as it was.
C30_Available(b, t) == Tokens(b.quota, b.tat, t - b.start)

C30_Step ==
  (\E m \in DOMAIN cfg : sweep'[m] # sweep[m])
    => \A id \in DOMAIN heap :
         C30_Available(heap'[id], now) = C30_Available(heap[id], now)

C30_CleanupLeavesTokens == [][C30_Step]_vars

====
